---- MODULE Spec2Model ----
(***************************************************************************)
(* Model of the LTL quotes report generator (report_generator.py and its   *)
(* callers).  Text is modelled as sequences of one-character strings so    *)
(* that parsing and formatting are computed the way the code computes      *)
(* them.  Percentages are kept as exact integers in hundredths of a        *)
(* percent, percent changes as exact fractions.                            *)
(***************************************************************************)
EXTENDS Integers, Sequences, FiniteSets, TLC

VARIABLES folders, files, csv_cache, op, ret

vars == <<folders, files, csv_cache, op, ret>>

(***************************************************************************)
(* Bounds of the model.                                                    *)
(***************************************************************************)
MaxFolders == 2
MaxFiles == 2
MaxWeeks == 2
MaxZipLen == 7
MaxCodeLen == 3
MaxRows == 3

(***************************************************************************)
(* Text helpers.                                                           *)
(***************************************************************************)
Min(a, b) == IF a < b THEN a ELSE b

Range(s) == {s[i] : i \in 1..Len(s)}

Digit == {"0", "1", "2", "3", "4", "5", "6", "7", "8", "9"}

DigitChars == <<"0", "1", "2", "3", "4", "5", "6", "7", "8", "9">>

DigitVal(c) ==
    CASE c = "0" -> 0 [] c = "1" -> 1 [] c = "2" -> 2 [] c = "3" -> 3 [] c = "4" -> 4
      [] c = "5" -> 5 [] c = "6" -> 6 [] c = "7" -> 7 [] c = "8" -> 8 [] c = "9" -> 9

IsSpace(c) == c \in {" ", "\t"}

\* s[a:b] of Python for 0 <= a <= b
Slice(s, a, b) == SubSeq(s, a + 1, Min(b, Len(s)))

StartsWith(s, p) == Len(s) >= Len(p) /\ SubSeq(s, 1, Len(p)) = p

EndsWith(s, p) == Len(s) >= Len(p) /\ SubSeq(s, Len(s) - Len(p) + 1, Len(s)) = p

Contains(s, p) == \E i \in 1..(Len(s) + 1) : i + Len(p) - 1 <= Len(s) /\ SubSeq(s, i, i + Len(p) - 1) = p

\* str.lstrip()
RECURSIVE LStrip(_)
LStrip(s) == IF s # <<>> /\ IsSpace(s[1]) THEN LStrip(Tail(s)) ELSE s

\* str.rstrip()
RECURSIVE RStrip(_)
RStrip(s) == IF s # <<>> /\ IsSpace(s[Len(s)]) THEN RStrip(SubSeq(s, 1, Len(s) - 1)) ELSE s

\* str.strip()
Strip(s) == RStrip(LStrip(s))

\* the longest prefix of s without white space
RECURSIVE Token(_)
Token(s) == IF s = <<>> \/ IsSpace(s[1]) THEN <<>> ELSE <<s[1]>> \o Token(Tail(s))

\* str.split()[0]: the first whitespace-delimited token (<<>> stands for IndexError)
FirstToken(s) == Token(LStrip(s))

RECURSIVE DecVal(_)
DecVal(s) == IF s = <<>> THEN 0 ELSE 10 * DecVal(SubSeq(s, 1, Len(s) - 1)) + DigitVal(s[Len(s)])

\* int(s): optional sign, then decimal digits; anything else raises ValueError
PyInt(s) ==
    LET t    == Strip(s)
        sgn  == Len(t) > 0 /\ t[1] \in {"+", "-"}
        body == IF sgn THEN Tail(t) ELSE t
        good == Len(body) > 0 /\ \A i \in 1..Len(body) : body[i] \in Digit
    IN  [ok  |-> good,
         val |-> IF ~good THEN 0 ELSE IF sgn /\ t[1] = "-" THEN 0 - DecVal(body) ELSE DecVal(body)]

RECURSIVE Dec(_)
Dec(n) == IF n < 10 THEN <<DigitChars[n + 1]>> ELSE Dec(n \div 10) \o <<DigitChars[(n % 10) + 1]>>

\* f"{n:02d}"
Fmt02d(n) ==
    LET body == IF n < 0 THEN <<"-">> \o Dec(0 - n) ELSE Dec(n)
    IN  IF Len(body) < 2 THEN <<"0">> \o body ELSE body

(***************************************************************************)
(* Week/folder resolver.                                                   *)
(***************************************************************************)
QuotesWord == <<"Q", "u", "o", "t", "e", "s">>

get_week_number_from_folder_name(folder_name) == PyInt(Slice(FirstToken(folder_name), 1, 3))

get_year_from_folder_name(folder_name) ==
    LET year_suffix == PyInt(Slice(FirstToken(folder_name), 3, 5))
    IN  [ok |-> year_suffix.ok, val |-> 2000 + year_suffix.val]

\* the filter and try/except of the folder loop of the report generators
IsWeekFolder(f) ==
    /\ StartsWith(f.name, <<"W">>)
    /\ Contains(f.name, QuotesWord)
    /\ get_week_number_from_folder_name(f.name).ok
    /\ get_year_from_folder_name(f.name).ok

FolderInfo(f) ==
    [id   |-> f.id,
     name |-> f.name,
     week |-> get_week_number_from_folder_name(f.name).val,
     year |-> get_year_from_folder_name(f.name).val]

ParseWeekFolders(listing) ==
    LET kept == SelectSeq(listing, IsWeekFolder)
    IN  [i \in 1..Len(kept) |-> FolderInfo(kept[i])]

\* (year, week) tuple comparison
KeyLess(a, b) == a.year < b.year \/ (a.year = b.year /\ a.week < b.week)

\* sorted(..., key=(year, week), reverse=True): stable, equal keys keep their order
RECURSIVE SortedDesc(_)
SortedDesc(s) ==
    IF s = <<>> THEN <<>>
    ELSE LET init == SortedDesc(SubSeq(s, 1, Len(s) - 1))
             x    == s[Len(s)]
             k    == Cardinality({i \in 1..Len(init) : ~KeyLess(init[i], x)})
         IN  SubSeq(init, 1, k) \o <<x>> \o SubSeq(init, k + 1, Len(init))

Reversed(s) == [i \in 1..Len(s) |-> s[Len(s) + 1 - i]]

\* sorted(...)[:num_weeks] followed by list(reversed(...))
SelectWeekFolders(listing, num_weeks) ==
    Reversed(Slice(SortedDesc(ParseWeekFolders(listing)), 0, num_weeks))

\* f"W{week:02d}Y{year % 100:02d}"
WeekLabel(folder) == <<"W">> \o Fmt02d(folder.week) \o <<"Y">> \o Fmt02d(folder.year % 100)

WeekLabels(week_folders) == [i \in 1..Len(week_folders) |-> WeekLabel(week_folders[i])]

(***************************************************************************)
(* Sample data: folder names, quote rows, CSV files and reference tables.  *)
(***************************************************************************)
FolderIds == 1..MaxFolders

NameW5224 == <<"W", "5", "2", "2", "4", " ", "Q", "u", "o", "t", "e", "s">>

NameW0125 == <<"W", "0", "1", "2", "5", " ", "Q", "u", "o", "t", "e", "s">>

NameW0225 == <<"W", "0", "2", "2", "5", " ", "Q", "u", "o", "t", "e", "s">>

NameW0225Old == <<"W", "0", "2", "2", "5", " ", "Q", "u", "o", "t", "e", "s", " ", "o", "l", "d">>

NameWxx25 == <<"W", "x", "x", "2", "5", " ", "Q", "u", "o", "t", "e", "s">>

FolderNames == {NameW5224, NameW0125, NameW0225, NameW0225Old, NameWxx25}

\* a missing value (NaN / None) of a cell
NaN == <<"NaN">>

CustA == <<"A">>

CustB == <<"B">>

Zip10001 == <<"1", "0", "0", "0", "1">>

Zip90001 == <<"9", "0", "0", "0", "1">>

Row1 == [customer |-> CustA, booked |-> <<"T", "r", "u", "e">>, rate |-> <<"1", "0", "0">>,
         pickup |-> Zip10001, dropoff |-> Zip90001]

Row2 == [customer |-> CustA, booked |-> <<"F", "a", "l", "s", "e">>, rate |-> NaN,
         pickup |-> Zip10001, dropoff |-> Zip90001]

Row3 == [customer |-> CustB, booked |-> <<"F", "a", "l", "s", "e">>, rate |-> <<" ", " ">>,
         pickup |-> Zip90001, dropoff |-> Zip10001]

Row4 == [customer |-> CustB, booked |-> <<"T", "R", "U", "E">>, rate |-> <<"5", "5", ".", "5">>,
         pickup |-> Zip90001 \o <<"-", "1", "2", "3", "4">>, dropoff |-> <<"1", "2", "3", "4">>]

Row5 == [customer |-> CustA, booked |-> <<"F", "a", "l", "s", "e">>, rate |-> <<"8", "0">>,
         pickup |-> Zip10001 \o <<".", "0">>, dropoff |-> Zip90001]

MimeCsv == <<"t", "e", "x", "t", "/", "c", "s", "v">>

FileA == [name |-> <<"a", ".", "c", "s", "v">>, mimeType |-> MimeCsv, rows |-> <<Row1, Row2>>]

FileB == [name |-> <<"b", ".", "c", "s", "v">>, mimeType |-> MimeCsv,
          rows |-> <<Row3, Row4, Row5, Row1, Row2>>]

FileT == [name |-> <<"t", ".", "t", "x", "t">>, mimeType |-> MimeCsv, rows |-> <<Row1>>]

SampleFiles == {FileA, FileB, FileT}

\* zip code -> airport code, as load_zip_to_airport_mapping returns it
ZipMapping == (Zip10001 :> <<"J", "F", "K">>) @@ (Zip90001 :> <<"L", "A", "X">>)

\* airport code -> region, as load_airport_to_region_mapping returns it
RegionMapping == (<<"J", "F", "K">> :> <<"E", "A", "S", "T">>) @@ (<<"L", "A", "X">> :> <<"W", "E", "S", "T">>)

(***************************************************************************)
(* CSV ingestion and cache.                                                *)
(***************************************************************************)
\* pd.DataFrame(): no columns, no rows
EmptyDataFrame == [cols |-> FALSE, rows |-> <<>>]

NotCached == [cached |-> FALSE, table |-> EmptyDataFrame]

DfEmpty(df) == ~df.cols \/ df.rows = <<>>

\* DriveClient.list_files_in_folder(folder_id, file_type='csv')
list_files_in_folder(folder_id) ==
    SelectSeq(files[folder_id], LAMBDA f : Contains(f.mimeType, <<"c", "s", "v">>))

ListCall(folder_id) == [kind |-> "list", folder |-> folder_id, file |-> <<>>]

DownloadCall(folder_id, file) == [kind |-> "download", folder |-> folder_id, file |-> file.name]

\* pd.read_csv of one file, tagged with df['source_file']
ReadCsv(file) == [i \in 1..Len(file.rows) |->
                    [customer |-> file.rows[i].customer, booked |-> file.rows[i].booked,
                     rate |-> file.rows[i].rate, pickup |-> file.rows[i].pickup,
                     dropoff |-> file.rows[i].dropoff, source_file |-> file.name]]

RECURSIVE Concat(_)
Concat(tables) == IF tables = <<>> THEN <<>> ELSE Head(tables) \o Concat(Tail(tables))

\* CombineFiles without the `if not all_data` guard: pd.concat([]) raises
CombineFiles_noguard(all_data) ==
    IF all_data = <<>> THEN [err |-> "ValueError", table |-> EmptyDataFrame]
    ELSE [err |-> "none", table |-> [cols |-> TRUE, rows |-> Concat(all_data)]]

\* the table made of the downloaded files: pd.DataFrame() when there is none,
\* pd.concat(all_data, ignore_index=True) otherwise (pd.concat raises ValueError on
\* an empty list)
CombineFiles(all_data) ==
    IF all_data = <<>> THEN [err |-> "none", table |-> EmptyDataFrame]
    ELSE [err |-> "none", table |-> [cols |-> TRUE, rows |-> Concat(all_data)]]

\* where the backend fails during one load: nowhere, in the file listing, or in the
\* download of the last CSV file of the listing
LoadFailures == {"none", "list", "download"}

\* FailedFetch that stores an empty table for the folder before raising
FailedFetch_cachesEmpty(cache, folder_id, calls) ==
    [cache |-> [cache EXCEPT ![folder_id] = [cached |-> TRUE, table |-> EmptyDataFrame]],
     table |-> EmptyDataFrame, calls |-> calls, err |-> "backend"]

\* the exception of list_files_in_folder or download_file_content leaves
\* load_csvs_from_folder before any store into _csv_cache
FailedFetch(cache, folder_id, calls) ==
    [cache |-> cache, table |-> EmptyDataFrame, calls |-> calls, err |-> "backend"]

\* the part of load_csvs_from_folder after the cache check: list, download, parse,
\* combine and store; `fail` = where the backend fails for this folder
FetchAndCache(cache, folder_id, fail) ==
    LET listed   == list_files_in_folder(folder_id)
        csvs     == SelectSeq(listed, LAMBDA f : EndsWith(f.name, <<".", "c", "s", "v">>))
        all_data == [i \in 1..Len(csvs) |-> ReadCsv(csvs[i])]
        combined == CombineFiles(all_data)
        calls    == <<ListCall(folder_id)>> \o [i \in 1..Len(csvs) |-> DownloadCall(folder_id, csvs[i])]
    IN  IF fail = "list" THEN FailedFetch(cache, folder_id, <<ListCall(folder_id)>>)
        ELSE IF fail = "download" /\ csvs # <<>> THEN FailedFetch(cache, folder_id, calls)
        ELSE [cache |-> IF combined.err # "none" THEN cache
                        ELSE [cache EXCEPT ![folder_id] = [cached |-> TRUE, table |-> combined.table]],
              table |-> combined.table,
              calls |-> calls,
              err   |-> combined.err]

\* load_csvs_from_folder without the cache check
load_always_fetches(cache, folder_id, fail) == FetchAndCache(cache, folder_id, fail)

\* load_csvs_from_folder on the cache value `cache`
load_csvs_from_folder(cache, folder_id, fail) ==
    IF cache[folder_id].cached
    THEN [cache |-> cache, table |-> cache[folder_id].table, calls |-> <<>>, err |-> "none"]
    ELSE FetchAndCache(cache, folder_id, fail)

(***************************************************************************)
(* Aggregation engine.                                                     *)
(***************************************************************************)
UpperChars == <<"A", "B", "C", "D", "E", "F", "G", "H", "I", "J", "K", "L", "M",
                "N", "O", "P", "Q", "R", "S", "T", "U", "V", "W", "X", "Y", "Z">>

LowerChars == <<"a", "b", "c", "d", "e", "f", "g", "h", "i", "j", "k", "l", "m",
                "n", "o", "p", "q", "r", "s", "t", "u", "v", "w", "x", "y", "z">>

ToLower == [k \in Range(UpperChars) |-> LowerChars[CHOOSE i \in 1..26 : UpperChars[i] = k]]

ToUpper == [k \in Range(LowerChars) |-> UpperChars[CHOOSE i \in 1..26 : LowerChars[i] = k]]

\* str.lower()
Lower(s) == [i \in 1..Len(s) |-> IF s[i] \in DOMAIN ToLower THEN ToLower[s[i]] ELSE s[i]]

\* str.upper()
Upper(s) == [i \in 1..Len(s) |-> IF s[i] \in DOMAIN ToUpper THEN ToUpper[s[i]] ELSE s[i]]

\* str(value): a missing value prints as 'nan'
Str(v) == IF v = NaN THEN <<"n", "a", "n">> ELSE v

\* df['rate'].notna() & (df['rate'].astype(str).str.strip() != '')
IsRated(row) == row.rate # NaN /\ Strip(Str(row.rate)) # <<>>

\* df['booked'].astype(str).str.lower() == 'true'
IsBooked(row) == Lower(Str(row.booked)) = <<"t", "r", "u", "e">>

\* round(num / den, 0) for num >= 0, den > 0: to nearest, ties to even
RoundHalfEven(num, den) ==
    LET q == num \div den
        r == num % den
    IN  IF 2 * r < den THEN q
        ELSE IF 2 * r > den THEN q + 1
        ELSE IF q % 2 = 0 THEN q ELSE q + 1

\* PctRated truncating instead of rounding
PctRated_truncated(rated, total) == (rated * 10000) \div total

\* (rated / total * 100).round(2), in hundredths of a percent
PctRated(rated, total) == RoundHalfEven(rated * 10000, total)

\* the pd.DataFrame() the stats functions return for an empty input: no columns at all
EmptyStats == [cols |-> FALSE, groups |-> <<>>]

\* calculate_week_stats counting the booked rows of the whole table for each customer
calculate_week_stats_bookedOverall(df) ==
    IF DfEmpty(df) THEN EmptyStats
    ELSE LET customers == {df.rows[i].customer : i \in 1..Len(df.rows)} \ {NaN}
             of(c)     == SelectSeq(df.rows, LAMBDA r : r.customer = c)
         IN  [cols   |-> TRUE,
              groups |-> [c \in customers |->
                            [booked       |-> Len(SelectSeq(df.rows, IsBooked)),
                             rated        |-> Len(SelectSeq(of(c), IsRated)),
                             total_quotes |-> Len(of(c)),
                             pct_rated    |-> PctRated(Len(SelectSeq(of(c), IsRated)), Len(of(c)))]]]

calculate_week_stats(df) ==
    IF DfEmpty(df) THEN EmptyStats
    ELSE LET customers == {df.rows[i].customer : i \in 1..Len(df.rows)} \ {NaN}
             of(c)     == SelectSeq(df.rows, LAMBDA r : r.customer = c)
         IN  [cols   |-> TRUE,
              groups |-> [c \in customers |->
                            [booked       |-> Len(SelectSeq(of(c), IsBooked)),
                             rated        |-> Len(SelectSeq(of(c), IsRated)),
                             total_quotes |-> Len(of(c)),
                             pct_rated    |-> PctRated(Len(SelectSeq(of(c), IsRated)), Len(of(c)))]]]

Unknown == <<"U", "N", "K", "N", "O", "W", "N">>

\* s.split(sep)[0]
RECURSIVE BeforeFirst(_, _)
BeforeFirst(s, sep) == IF s = <<>> \/ s[1] = sep THEN <<>> ELSE <<s[1]>> \o BeforeFirst(Tail(s), sep)

\* str.zfill(width): zeros go after a leading sign
RECURSIVE Zfill(_, _)
Zfill(s, width) ==
    IF Len(s) >= width THEN s
    ELSE IF Len(s) > 0 /\ s[1] \in {"+", "-"} THEN Zfill(<<s[1], "0">> \o Tail(s), width)
    ELSE Zfill(<<"0">> \o s, width)

\* NormalizeZip without the zero padding
NormalizeZip_nopad(zip_code) == Slice(Strip(BeforeFirst(BeforeFirst(Str(zip_code), "-"), ".")), 0, 5)

\* str(zip_code).split('-')[0].split('.')[0].strip().zfill(5)[:5]
NormalizeZip(zip_code) == Slice(Zfill(Strip(BeforeFirst(BeforeFirst(Str(zip_code), "-"), ".")), 5), 0, 5)

\* dict.get(key, default)
DictGet(mapping, key, default) == IF key \in DOMAIN mapping THEN mapping[key] ELSE default

\* get_airport_code that falls back to the value as it was passed
get_airport_code_raw(zip_code, mapping) ==
    IF zip_code = NaN \/ Strip(Str(zip_code)) = <<>> THEN Unknown
    ELSE DictGet(mapping, NormalizeZip(zip_code), Str(zip_code))

get_airport_code(zip_code, mapping) ==
    IF zip_code = NaN \/ Strip(Str(zip_code)) = <<>> THEN Unknown
    ELSE LET zip_str == NormalizeZip(zip_code)
         IN  DictGet(mapping, zip_str, zip_str)

\* get_region that falls back to the value as it was passed
get_region_raw(airport_code, mapping) ==
    IF airport_code = NaN \/ Strip(Str(airport_code)) = <<>> THEN Unknown
    ELSE DictGet(mapping, Upper(Strip(Str(airport_code))), Str(airport_code))

get_region(airport_code, mapping) ==
    IF airport_code = NaN \/ Strip(Str(airport_code)) = <<>> THEN Unknown
    ELSE LET airport_str == Upper(Strip(Str(airport_code)))
         IN  DictGet(mapping, airport_str, airport_str)

\* rated_df['origin_airport'] + '-' + rated_df['dest_airport']
LaneOf(row, mapping) ==
    get_airport_code(row.pickup, mapping) \o <<"-">> \o get_airport_code(row.dropoff, mapping)

\* calculate_lanes_stats without the restriction to rated rows
calculate_lanes_stats_allRows(df, mapping) ==
    IF DfEmpty(df) THEN EmptyStats
    ELSE LET lane == [i \in 1..Len(df.rows) |-> LaneOf(df.rows[i], mapping)]
         IN  [cols   |-> TRUE,
              groups |-> [l \in Range(lane) |-> [total |-> Len(SelectSeq(lane, LAMBDA x : x = l))]]]

calculate_lanes_stats(df, mapping) ==
    IF DfEmpty(df) THEN EmptyStats
    ELSE LET rated_df == SelectSeq(df.rows, IsRated)
             lane     == [i \in 1..Len(rated_df) |-> LaneOf(rated_df[i], mapping)]
         IN  IF rated_df = <<>> THEN EmptyStats
             ELSE [cols   |-> TRUE,
                   groups |-> [l \in Range(lane) |-> [total |-> Len(SelectSeq(lane, LAMBDA x : x = l))]]]

\* RegionLaneOf with the destination left as an airport code
RegionLaneOf_destAirport(row, zip_mapping, region_mapping) ==
    get_region(get_airport_code(row.pickup, zip_mapping), region_mapping) \o <<"-">>
        \o get_airport_code(row.dropoff, zip_mapping)

\* rated_df['origin_region'] + '-' + rated_df['dest_region']
RegionLaneOf(row, zip_mapping, region_mapping) ==
    get_region(get_airport_code(row.pickup, zip_mapping), region_mapping) \o <<"-">>
        \o get_region(get_airport_code(row.dropoff, zip_mapping), region_mapping)

calculate_regions_stats(df, zip_mapping, region_mapping) ==
    IF DfEmpty(df) THEN EmptyStats
    ELSE LET rated_df    == SelectSeq(df.rows, IsRated)
             region_lane == [i \in 1..Len(rated_df) |-> RegionLaneOf(rated_df[i], zip_mapping, region_mapping)]
         IN  IF rated_df = <<>> THEN EmptyStats
             ELSE [cols   |-> TRUE,
                   groups |-> [l \in Range(region_lane) |->
                                 [total |-> Len(SelectSeq(region_lane, LAMBDA x : x = l))]]]

(***************************************************************************)
(* Report assembler.                                                       *)
(***************************************************************************)
RECURSIVE SumInts(_)
SumInts(s) == IF s = <<>> THEN 0 ELSE Head(s) + SumInts(Tail(s))

\* every order in which a set can be enumerated
Perms(S) == {p \in [1..Cardinality(S) -> S] : \A x \in S : \E i \in DOMAIN p : p[i] = x}

\* where the storage backend fails during a request: nowhere, in search_folders, or
\* in the first file listing
Failures == {"none", "search", "load"}

\* DriveClient.search_folders("Quotes")
search_folders == SelectSeq(folders, LAMBDA f : Contains(f.name, QuotesWord))

StatsOf(kind, df) ==
    CASE kind = "customer" -> calculate_week_stats(df)
      [] kind = "lanes"    -> calculate_lanes_stats(df, ZipMapping)
      [] kind = "regions"  -> calculate_regions_stats(df, ZipMapping, RegionMapping)

\* the loop over week_folders: load the folder, compute its statistics, collect its
\* entities (stats['customer'] raises KeyError on a frame without columns)
RECURSIVE ProcessFolders(_, _, _, _)
ProcessFolders(week_folders, st, fail, kind) ==
    IF week_folders = <<>> \/ st.err # "none" THEN st
    ELSE LET folder == Head(week_folders)
             r      == load_csvs_from_folder(st.cache, folder.id, IF fail = "load" THEN "list" ELSE "none")
             stats  == StatsOf(kind, r.table)
             err    == IF r.err # "none" THEN r.err
                       ELSE IF kind = "customer" /\ ~stats.cols THEN "KeyError"
                       ELSE "none"
         IN  ProcessFolders(Tail(week_folders),
                            [cache     |-> r.cache,
                             calls     |-> st.calls \o r.calls,
                             err       |-> err,
                             entities  |-> IF err # "none" THEN st.entities
                                           ELSE st.entities \cup DOMAIN stats.groups,
                             week_data |-> IF r.err # "none" THEN st.week_data
                                           ELSE (WeekLabel(folder) :> stats) @@ st.week_data],
                            fail, kind)

StartState == [cache |-> csv_cache, calls |-> <<>>, err |-> "none", entities |-> {}, week_data |-> <<>>]

\* AllEntities read from week_data, which keeps one entry per label
AllEntities_fromWeekData(st) == UNION {DOMAIN st.week_data[l].groups : l \in DOMAIN st.week_data}

\* all_customers / all_lanes / all_region_lanes: collected folder by folder, so the
\* entities of a folder stay when a later folder of the same label replaces its statistics
AllEntities(st) == st.entities

CustomerMetrics == {"Booked", "Rated", "Total Quotes", "% Rated"}

\* the per-week cells of one customer's row
CustomerCells(customer, week_labels, week_data) ==
    [l \in Range(week_labels) |->
        IF customer \in DOMAIN week_data[l].groups
        THEN LET cust_stats == week_data[l].groups[customer]
             IN  ("Booked" :> cust_stats.booked) @@ ("Rated" :> cust_stats.rated)
                   @@ ("Total Quotes" :> cust_stats.total_quotes) @@ ("% Rated" :> cust_stats.pct_rated)
        ELSE ("Booked" :> 0) @@ ("Rated" :> 0) @@ ("Total Quotes" :> 0) @@ ("% Rated" :> 0)]

\* row['_total_volume']: the total is added once per entry of week_labels
TotalVolume(customer, week_labels, week_data) ==
    SumInts([i \in 1..Len(week_labels) |->
               CustomerCells(customer, week_labels, week_data)[week_labels[i]]["Total Quotes"]])

\* ColumnSum that leaves the first row out
ColumnSum_skipsFirst(rows, label, metric) ==
    SumInts([i \in 1..(Len(rows) - 1) |-> rows[i + 1].cells[label][metric]])

\* report_df[f'{week_label}_{metric}'].sum()
ColumnSum(rows, label, metric) == SumInts([i \in 1..Len(rows) |-> rows[i].cells[label][metric]])

TotalName == <<"T", "O", "T", "A", "L">>

\* TotalRow with % Rated summed like the other columns
TotalRow_sumsPct(rows, week_labels) ==
    [name  |-> TotalName,
     cells |-> [l \in Range(week_labels) |->
                  ("Booked" :> ColumnSum(rows, l, "Booked"))
                    @@ ("Rated" :> ColumnSum(rows, l, "Rated"))
                    @@ ("Total Quotes" :> ColumnSum(rows, l, "Total Quotes"))
                    @@ ("% Rated" :> ColumnSum(rows, l, "% Rated"))]]

\* the TOTAL row computed from the sorted customer rows
TotalRow(rows, week_labels) ==
    [name  |-> TotalName,
     cells |-> [l \in Range(week_labels) |->
                  LET total_quotes == ColumnSum(rows, l, "Total Quotes")
                  IN  ("Booked" :> ColumnSum(rows, l, "Booked"))
                        @@ ("Rated" :> ColumnSum(rows, l, "Rated"))
                        @@ ("Total Quotes" :> total_quotes)
                        @@ ("% Rated" :> IF total_quotes > 0
                                         THEN RoundHalfEven(ColumnSum(rows, l, "Rated") * 10000, total_quotes)
                                         ELSE 0)]]

\* WithTotalRow with the operands of pd.concat exchanged
WithTotalRow_appended(rows, week_labels) == rows \o <<TotalRow(rows, week_labels)>>

\* pd.concat([pd.DataFrame([total_row]), report_df], ignore_index=True)
WithTotalRow(rows, week_labels) == <<TotalRow(rows, week_labels)>> \o rows

\* SortedOrders with ascending=True
SortedOrders_ascending(entities, key) ==
    {p \in Perms(entities) : \A i, j \in DOMAIN p : i < j => key[p[i]] <= key[p[j]]}

\* report_df.sort_values(key, ascending=False): every order the sort can leave ties in
SortedOrders(entities, key) ==
    {p \in Perms(entities) : \A i, j \in DOMAIN p : i < j => key[p[i]] >= key[p[j]]}

NullChange == [null |-> TRUE, num |-> 0, den |-> 1]

\* the per-week loop that fills one lane (or region pair) row; the row is a dict, so
\* a label that occurs twice in week_labels writes the same keys twice
RECURSIVE LaneRowFold(_, _, _, _, _)
LaneRowFold(entity, week_labels, week_data, i, row) ==
    IF i > Len(week_labels) THEN row
    ELSE LET stats      == week_data[week_labels[i]]
             total      == IF stats.cols /\ entity \in DOMAIN stats.groups
                           THEN stats.groups[entity].total ELSE 0
             totals     == (week_labels[i] :> total) @@ row.totals
             prev_total == IF i > 1 /\ week_labels[i - 1] \in DOMAIN totals
                           THEN totals[week_labels[i - 1]] ELSE 0
             change     == IF i > 1 /\ prev_total > 0
                           THEN [null |-> FALSE, num |-> (total - prev_total) * 100, den |-> prev_total]
                           ELSE NullChange
         IN  LaneRowFold(entity, week_labels, week_data, i + 1,
                         [totals |-> totals, changes |-> (week_labels[i] :> change) @@ row.changes])

LaneRow(entity, week_labels, week_data) ==
    LET row == LaneRowFold(entity, week_labels, week_data, 1, [totals |-> <<>>, changes |-> <<>>])
    IN  [name  |-> entity,
         cells |-> [l \in DOMAIN row.totals |-> ("Total" :> row.totals[l]) @@ ("%Change" :> row.changes[l])]]

\* LatestTotal taken from the first week label
LatestTotal_first(entity, week_labels, week_data) ==
    IF week_labels = <<>> THEN 0
    ELSE LaneRow(entity, week_labels, week_data).cells[week_labels[1]]["Total"]

\* row['_latest_total']
LatestTotal(entity, week_labels, week_data) ==
    IF week_labels = <<>> THEN 0
    ELSE LaneRow(entity, week_labels, week_data).cells[week_labels[Len(week_labels)]]["Total"]

(***************************************************************************)
(* State machine.  op names the last operation and its arguments, ret what *)
(* it returned: an error kind, the week labels, the report rows, the       *)
(* loaded table and the backend calls it made.                             *)
(***************************************************************************)
NoRet == [err |-> "none", labels |-> <<>>, rows |-> <<>>, table |-> EmptyDataFrame, calls |-> <<>>]

Raised(err, calls) == [NoRet EXCEPT !.err = err, !.calls = calls]

Init ==
    /\ folders = <<>>
    /\ files = [f \in FolderIds |-> <<>>]
    /\ csv_cache = [f \in FolderIds |-> NotCached]
    /\ op = [name |-> "init", num_weeks |-> 0, folder |-> 0]
    /\ ret = NoRet

\* a folder appears in the drive
DriveAddFolder(name) ==
    /\ Len(folders) < MaxFolders
    /\ folders' = Append(folders, [id |-> Len(folders) + 1, name |-> name])
    /\ op' = [name |-> "drive", num_weeks |-> 0, folder |-> 0]
    /\ ret' = NoRet
    /\ UNCHANGED <<files, csv_cache>>

\* a file is uploaded into a folder of the drive
DriveUploadFile(folder_id, file) ==
    /\ folder_id \in 1..Len(folders)
    /\ SumInts([f \in FolderIds |-> Len(files[f])]) < MaxFiles
    /\ files' = [files EXCEPT ![folder_id] = Append(@, file)]
    /\ op' = [name |-> "drive", num_weeks |-> 0, folder |-> 0]
    /\ ret' = NoRet
    /\ UNCHANGED <<folders, csv_cache>>

clear_csv_cache ==
    /\ csv_cache' = [f \in FolderIds |-> NotCached]
    /\ op' = [name |-> "clear_csv_cache", num_weeks |-> 0, folder |-> 0]
    /\ ret' = NoRet
    /\ UNCHANGED <<folders, files>>

\* one call of load_csvs_from_folder by a caller
LoadCsvs(folder_id, fail) ==
    /\ folder_id \in 1..Len(folders)
    /\ LET r == load_csvs_from_folder(csv_cache, folder_id, fail)
       IN  /\ csv_cache' = r.cache
           /\ ret' = [NoRet EXCEPT !.err = r.err, !.table = r.table, !.calls = r.calls]
    /\ op' = [name |-> "load_csvs_from_folder", num_weeks |-> 0, folder |-> folder_id]
    /\ UNCHANGED <<folders, files>>

SearchCall == [kind |-> "search", folder |-> 0, file |-> <<>>]

generate_report(num_weeks, fail) ==
    /\ op' = [name |-> "generate_report", num_weeks |-> num_weeks, folder |-> 0]
    /\ UNCHANGED <<folders, files>>
    /\ IF fail = "search"
       THEN /\ ret' = Raised("backend", <<SearchCall>>)
            /\ UNCHANGED csv_cache
       ELSE \E week_folders \in {SelectWeekFolders(search_folders, num_weeks)} :
            \E st \in {ProcessFolders(week_folders, StartState, fail, "customer")} :
                LET week_labels   == WeekLabels(week_folders)
                    calls         == <<SearchCall>> \o st.calls
                    all_customers == AllEntities(st)
                IN  /\ csv_cache' = st.cache
                    /\ IF st.err # "none" THEN ret' = Raised(st.err, calls)
                       ELSE IF all_customers = {} THEN ret' = Raised("KeyError", calls)
                       ELSE \E volume \in {[c \in all_customers |-> TotalVolume(c, week_labels, st.week_data)]} :
                            \E order \in SortedOrders(all_customers, volume) :
                              LET report_rows == [i \in 1..Len(order) |->
                                                    [name  |-> order[i],
                                                     cells |-> CustomerCells(order[i], week_labels, st.week_data)]]
                              IN  ret' = [NoRet EXCEPT !.labels = week_labels,
                                                       !.rows = WithTotalRow(report_rows, week_labels),
                                                       !.calls = calls]

\* generate_lanes_report and generate_regions_report share their body up to the statistics
LanesLikeReport(opname, kind, num_weeks, fail) ==
    /\ op' = [name |-> opname, num_weeks |-> num_weeks, folder |-> 0]
    /\ UNCHANGED <<folders, files>>
    /\ IF fail = "search"
       THEN /\ ret' = Raised("backend", <<SearchCall>>)
            /\ UNCHANGED csv_cache
       ELSE \E week_folders \in {SelectWeekFolders(search_folders, num_weeks)} :
            \E st \in {ProcessFolders(week_folders, StartState, fail, kind)} :
                LET week_labels == WeekLabels(week_folders)
                    calls       == <<SearchCall>> \o st.calls
                    all_lanes   == AllEntities(st)
                IN  /\ csv_cache' = st.cache
                    /\ IF st.err # "none" THEN ret' = Raised(st.err, calls)
                       ELSE \E latest \in {[l \in all_lanes |-> LatestTotal(l, week_labels, st.week_data)]} :
                            \E order \in SortedOrders(all_lanes, latest) :
                              ret' = [NoRet EXCEPT !.labels = week_labels,
                                                   !.rows = [i \in 1..Len(order) |->
                                                               LaneRow(order[i], week_labels, st.week_data)],
                                                   !.calls = calls]

generate_lanes_report(num_weeks, fail) ==
    LanesLikeReport("generate_lanes_report", "lanes", num_weeks, fail)

generate_regions_report(num_weeks, fail) ==
    LanesLikeReport("generate_regions_report", "regions", num_weeks, fail)

\* the drive changes under the program: folders named from `names` appear, files
\* from `samples` are uploaded
DriveChanges(names, samples) ==
    \/ \E name \in names : DriveAddFolder(name)
    \/ \E folder_id \in FolderIds, file \in samples : DriveUploadFile(folder_id, file)

Next ==
    \/ DriveChanges(FolderNames, SampleFiles)
    \/ clear_csv_cache
    \/ \E folder_id \in FolderIds, fail \in LoadFailures : LoadCsvs(folder_id, fail)
    \/ \E num_weeks \in 1..MaxWeeks, fail \in Failures : generate_report(num_weeks, fail)
    \/ \E num_weeks \in 1..MaxWeeks, fail \in Failures : generate_lanes_report(num_weeks, fail)
    \/ \E num_weeks \in 1..MaxWeeks, fail \in Failures : generate_regions_report(num_weeks, fail)

\* every operation over every input; the specifications below keep one component
\* each with the inputs that matter to it, small enough to explore exhaustively
Spec == Init /\ [][Next]_vars

\* the cache and its direct callers
NextCache ==
    \/ DriveChanges(FolderNames, SampleFiles)
    \/ clear_csv_cache
    \/ \E folder_id \in FolderIds, fail \in LoadFailures : LoadCsvs(folder_id, fail)

SpecCache == Init /\ [][NextCache]_vars

\* the folder resolver of the three reports, over every folder name
NextResolver ==
    \/ DriveChanges(FolderNames, {FileA})
    \/ \E num_weeks \in 1..MaxWeeks, fail \in Failures : generate_report(num_weeks, fail)
    \/ \E num_weeks \in 1..MaxWeeks, fail \in Failures : generate_lanes_report(num_weeks, fail)
    \/ \E num_weeks \in 1..MaxWeeks, fail \in Failures : generate_regions_report(num_weeks, fail)

SpecResolver == Init /\ [][NextResolver]_vars

\* the customer report, over every sample file
NextCustomer ==
    \/ DriveChanges({NameW5224, NameW0125}, SampleFiles)
    \/ clear_csv_cache
    \/ \E num_weeks \in 1..MaxWeeks, fail \in Failures : generate_report(num_weeks, fail)

SpecCustomer == Init /\ [][NextCustomer]_vars

\* the lanes and regions reports, over every sample file
NextLanes ==
    \/ DriveChanges({NameW5224, NameW0125}, SampleFiles)
    \/ clear_csv_cache
    \/ \E num_weeks \in 1..MaxWeeks, fail \in Failures : generate_lanes_report(num_weeks, fail)
    \/ \E num_weeks \in 1..MaxWeeks, fail \in Failures : generate_regions_report(num_weeks, fail)

SpecLanes == Init /\ [][NextLanes]_vars

\* the three reports over the files with quotes, for the widest window
NextReports ==
    \/ DriveChanges({NameW5224, NameW0125}, {FileA, FileB})
    \/ \E fail \in Failures : generate_report(MaxWeeks, fail)
    \/ \E fail \in Failures : generate_lanes_report(MaxWeeks, fail)
    \/ \E fail \in Failures : generate_regions_report(MaxWeeks, fail)

SpecReports == Init /\ [][NextReports]_vars

(***************************************************************************)
(* The two lookups, applied to every short text over the characters that   *)
(* matter to them, and to a missing value.                                 *)
(***************************************************************************)
ZipChars == {"0", "1", "-", ".", " "}

CodeChars == {"J", "F", "K", "j", "f", "k", " "}

Texts(chars, n) == UNION {[1..k -> chars] : k \in 0..n}

ZipInputs == Texts(ZipChars, MaxZipLen) \cup {NaN}

CodeInputs == Texts(CodeChars, MaxCodeLen) \cup {NaN}

\* a call of one of the lookups is about to be made with an argument
InitLookup ==
    /\ folders = <<>>
    /\ files = [f \in FolderIds |-> <<>>]
    /\ csv_cache = [f \in FolderIds |-> NotCached]
    /\ op \in {[name |-> "call", fn |-> "get_airport_code", arg |-> zip_code] : zip_code \in ZipInputs}
              \cup {[name |-> "call", fn |-> "get_region", arg |-> airport_code] : airport_code \in CodeInputs}
    /\ ret = NoRet

LookupAirport ==
    /\ op.name = "call" /\ op.fn = "get_airport_code"
    /\ op' = [name |-> "get_airport_code", arg |-> op.arg]
    /\ ret' = [err |-> "none", value |-> get_airport_code(op.arg, ZipMapping)]
    /\ UNCHANGED <<folders, files, csv_cache>>

LookupRegion ==
    /\ op.name = "call" /\ op.fn = "get_region"
    /\ op' = [name |-> "get_region", arg |-> op.arg]
    /\ ret' = [err |-> "none", value |-> get_region(op.arg, RegionMapping)]
    /\ UNCHANGED <<folders, files, csv_cache>>

NextLookup ==
    \/ LookupAirport
    \/ LookupRegion

SpecLookup == InitLookup /\ [][NextLookup]_vars

(***************************************************************************)
(* Spatial expansion analyzer (expansion_app.py).  Centroid coordinates    *)
(* are whole centimetres, a distance in miles is the exact fraction        *)
(* num / den.                                                              *)
(***************************************************************************)
\* 1609.34 metres, in centimetres
CmPerMile == 160934

Zip10002 == <<"1", "0", "0", "0", "2">>

Zip10003 == <<"1", "0", "0", "0", "3">>

Zip01234 == <<"0", "1", "2", "3", "4">>

\* unrated quotes towards ZIPs no rated quote names
RowU1 == [customer |-> CustA, booked |-> <<"F", "a", "l", "s", "e">>, rate |-> NaN,
          pickup |-> Zip10002, dropoff |-> Zip01234]

RowU2 == [customer |-> CustB, booked |-> <<"F", "a", "l", "s", "e">>, rate |-> <<" ">>,
          pickup |-> NaN, dropoff |-> Zip10003]

RowU3 == [customer |-> CustB, booked |-> <<"F", "a", "l", "s", "e">>, rate |-> NaN,
          pickup |-> Zip10002 \o <<"-", "1", "2", "3", "4">>, dropoff |-> Zip10001]

QuoteRows == {Row1, Row2, Row4, RowU1, RowU2, RowU3}

\* the quote tables load_quotes_data can hand to the analyzer (never empty)
QuoteTables == UNION {[1..k -> QuoteRows] : k \in 1..MaxRows}

Pt(x, y) == [x |-> x * CmPerMile, y |-> y * CmPerMile]

\* centroid tables: four ZIPs on a grid of whole miles; the two ZIPs of the example
\* one mile apart; a table without any ZIP that a rated quote names
CentroidsGrid ==
    (Zip10001 :> Pt(0, 0)) @@ (Zip90001 :> Pt(6, 0)) @@ (Zip10002 :> Pt(3, 4)) @@ (Zip01234 :> Pt(0, 8))

CentroidsExample == (Zip10001 :> Pt(0, 0)) @@ (Zip10002 :> Pt(1, 0))

CentroidsUnserviced == (Zip10002 :> Pt(3, 4))

CentroidTables == {CentroidsGrid, CentroidsExample, CentroidsUnserviced}

\* .astype(str).str.strip().str[:5]
Clean(v) == Slice(Strip(Str(v)), 0, 5)

\* zip_code and len(zip_code) == 5 and zip_code.isdigit()
IsFiveDigits(z) == Len(z) = 5 /\ \A i \in 1..5 : z[i] \in Digit

ZipColumns == {"pickup", "dropoff"}

\* the non-null cells of both ZIP columns in the rated (or the unrated) rows
ZipCells(df, rated) ==
    {<<i, col>> \in (1..Len(df)) \X ZipColumns : IsRated(df[i]) = rated /\ df[i][col] # NaN}

ServicedZips(df) == {Clean(df[c[1]][c[2]]) : c \in ZipCells(df, TRUE)}

\* zip_counts: the unserviced five-digit ZIPs of the unrated rows with their counts
ZipCounts(df) ==
    LET serviced_zips == ServicedZips(df)
        cells         == ZipCells(df, FALSE)
        counted       == {c \in cells : /\ IsFiveDigits(Clean(df[c[1]][c[2]]))
                                        /\ Clean(df[c[1]][c[2]]) \notin serviced_zips}
    IN  [z \in {Clean(df[c[1]][c[2]]) : c \in counted} |->
            Cardinality({c \in counted : Clean(df[c[1]][c[2]]) = z})]

\* df['pickup_airport'] and df['pickup_region'] of a row
PickupBucket(row, column) ==
    LET pickup_airport == get_airport_code(Clean(row.pickup), ZipMapping)
    IN  IF column = "pickup_airport" THEN pickup_airport ELSE get_region(pickup_airport, RegionMapping)

\* df.groupby(column).size().to_dict()
SizeBy(df, column) ==
    [b \in {PickupBucket(df[i], column) : i \in 1..Len(df)} |->
        Cardinality({i \in 1..Len(df) : PickupBucket(df[i], column) = b})]

Abs(n) == IF n < 0 THEN 0 - n ELSE n

RECURSIVE GCD(_, _)
GCD(a, b) == IF b = 0 THEN a ELSE GCD(b, a % b)

\* the integer square root
ISqrt(n) == CHOOSE r \in 0..n : r * r <= n /\ (r + 1) * (r + 1) > n

\* Distance by the sum of the coordinate differences
Distance_manhattan(p, q) == Abs(p.x - q.x) + Abs(p.y - q.y)

\* Point.distance: sqrt(dx^2 + dy^2), computed on the differences divided by their
\* common factor to stay within the integers (exact for the sample centroids)
Distance(p, q) ==
    LET dx == Abs(p.x - q.x)
        dy == Abs(p.y - q.y)
        g  == GCD(dx, dy)
    IN  IF g = 0 THEN 0 ELSE g * ISqrt((dx \div g) * (dx \div g) + (dy \div g) * (dy \div g))

NoDistance == [null |-> TRUE, num |-> 0, den |-> 1]

NoZip == <<"None">>

\* the (distance_miles, nearest_serviced_zip) pairs the spatial index can answer for a
\* ZIP: any of the serviced centroids at the least distance
NearestAnswers(zip_code, serviced_zips, centroids_df) ==
    LET serviced_zip_list == serviced_zips \cap DOMAIN centroids_df
    IN  IF serviced_zip_list = {} \/ zip_code \notin DOMAIN centroids_df
        THEN {[distance_miles |-> NoDistance, nearest_serviced_zip |-> NoZip]}
        ELSE LET min_dist(z) == Distance(centroids_df[zip_code], centroids_df[z])
             IN  {[distance_miles       |-> [null |-> FALSE, num |-> min_dist(z), den |-> CmPerMile],
                   nearest_serviced_zip |-> z] :
                     z \in {n \in serviced_zip_list : \A o \in serviced_zip_list : min_dist(n) <= min_dist(o)}}

EmptyResults == <<>>

\* what analyze_expansion_opportunities can return: the length of the returned tuple
\* and its members
analyze_expansion_opportunities(df, centroids_df, zip_mapping, region_mapping) ==
    LET serviced_zips           == ServicedZips(df)
        total_quotes_by_airport == SizeBy(df, "pickup_airport")
        total_quotes_by_region  == SizeBy(df, "pickup_region")
        zip_counts              == ZipCounts(df)
        Returns(n, results)     == [arity |-> n, results |-> results, serviced_zips |-> serviced_zips,
                                    total_quotes_by_airport |-> total_quotes_by_airport,
                                    total_quotes_by_region |-> total_quotes_by_region]
    IN  IF \A i \in 1..Len(df) : IsRated(df[i]) THEN {Returns(4, EmptyResults)}
        ELSE IF DOMAIN zip_counts = {} THEN {Returns(2, EmptyResults)}
        ELSE {Returns(4, [i \in 1..Len(order) |->
                            [zip_code             |-> order[i],
                             quote_count          |-> zip_counts[order[i]],
                             distance_miles       |-> near[order[i]].distance_miles,
                             nearest_serviced_zip |-> near[order[i]].nearest_serviced_zip,
                             airport_code         |-> get_airport_code(order[i], zip_mapping),
                             region               |-> get_region(get_airport_code(order[i], zip_mapping),
                                                                 region_mapping)]]) :
                 order \in SortedOrders(DOMAIN zip_counts, zip_counts),
                 near \in {f \in [DOMAIN zip_counts -> UNION {NearestAnswers(z, serviced_zips, centroids_df) :
                                                                z \in DOMAIN zip_counts}] :
                              \A z \in DOMAIN zip_counts : f[z] \in NearestAnswers(z, serviced_zips, centroids_df)}}

\* PassesFilter with < for the distance
PassesFilter_strict(row, min_quotes, max_distance) ==
    /\ row.quote_count >= min_quotes
    /\ ~row.distance_miles.null
    /\ row.distance_miles.num < max_distance * row.distance_miles.den

\* the filter of main over one row of results
PassesFilter(row, min_quotes, max_distance) ==
    /\ row.quote_count >= min_quotes
    /\ ~row.distance_miles.null
    /\ row.distance_miles.num <= max_distance * row.distance_miles.den

\* (unserviced / total * 100).round(1), in tenths of a percent; a division by zero
\* gives inf (nan for 0 / 0)
PctNotServiced(unserviced, total) ==
    IF total = 0 THEN [finite |-> FALSE, value |-> IF unserviced = 0 THEN "nan" ELSE "inf"]
    ELSE [finite |-> TRUE, value |-> RoundHalfEven(unserviced * 1000, total)]

\* the summary of the filtered rows by airport code or by region
Summary(filtered, column, totals) ==
    [b \in {filtered[i][column] : i \in 1..Len(filtered)} |->
        LET rows       == SelectSeq(filtered, LAMBDA r : r[column] = b)
            unserviced == SumInts([i \in 1..Len(rows) |-> rows[i].quote_count])
            total      == DictGet(totals, b, 0)
        IN  [zip_count |-> Len(rows), unserviced_quotes |-> unserviced, total_quotes |-> total,
             pct_not_serviced |-> PctNotServiced(unserviced, total)]]

NoAnalysis ==
    [err |-> "none", arity |-> 0, results |-> EmptyResults, filtered |-> EmptyResults,
     airport_summary |-> <<>>, region_summary |-> <<>>]

\* Run Analysis has been pressed with a quote table, a centroid table and the filters
InitExpansion ==
    /\ folders = <<>>
    /\ files = [f \in FolderIds |-> <<>>]
    /\ csv_cache = [f \in FolderIds |-> NotCached]
    /\ op \in [name : {"call"}, fn : {"main"}, quotes_df : QuoteTables, centroids_df : CentroidTables,
               min_quotes : {1, 2}, max_distance : {5, 7}]
    /\ ret = NoAnalysis

\* main of expansion_app from the analysis on: unpack, filter, summarize
ExpansionMain ==
    /\ op.name = "call" /\ op.fn = "main"
    /\ op' = [op EXCEPT !.name = "analyze_expansion_opportunities"]
    /\ UNCHANGED <<folders, files, csv_cache>>
    /\ \E out \in analyze_expansion_opportunities(op.quotes_df, op.centroids_df, ZipMapping, RegionMapping) :
          IF out.arity # 4
          THEN ret' = [NoAnalysis EXCEPT !.err = "ValueError", !.arity = out.arity]
          ELSE LET filtered == SelectSeq(out.results,
                                         LAMBDA r : PassesFilter(r, op.min_quotes, op.max_distance))
               IN  ret' = [err |-> "none", arity |-> 4, results |-> out.results, filtered |-> filtered,
                           airport_summary |-> Summary(filtered, "airport_code", out.total_quotes_by_airport),
                           region_summary  |-> Summary(filtered, "region", out.total_quotes_by_region)]

NextExpansion == ExpansionMain

SpecExpansion == InitExpansion /\ [][NextExpansion]_vars

(***************************************************************************)
(* The quote loader of the expansion analysis.                             *)
(***************************************************************************)
\* re.compile(r'^W(\d{2})(\d{2})\s+Quotes$').match(name); `$` also matches before a
\* final newline
MatchesWeekPattern(name) ==
    /\ Len(name) >= 12
    /\ name[1] = "W"
    /\ \A i \in 2..5 : name[i] \in Digit
    /\ \E k \in 6..(Len(name) - 6) :
          /\ \A i \in 6..k : IsSpace(name[i])
          /\ SubSeq(name, k + 1, Len(name)) \in {QuotesWord, QuotesWord \o <<"\n">>}

\* the week folders load_quotes_data parses from the listing
PatternFolders(listing) ==
    LET kept == SelectSeq(listing, LAMBDA f : MatchesWeekPattern(f.name))
    IN  [i \in 1..Len(kept) |->
           [id   |-> kept[i].id,
            name |-> kept[i].name,
            week |-> 10 * DigitVal(kept[i].name[2]) + DigitVal(kept[i].name[3]),
            year |-> 2000 + 10 * DigitVal(kept[i].name[4]) + DigitVal(kept[i].name[5])]]

\* df['week'] = wf['week']; df['year'] = wf['year']: the table object after the two
\* assignments
WithWeekYear(df, wf) ==
    [cols |-> df.cols,
     rows |-> [i \in 1..Len(df.rows) |->
                 [c \in DOMAIN df.rows[i] \cup {"week", "year"} |->
                    IF c = "week" THEN wf.week ELSE IF c = "year" THEN wf.year ELSE df.rows[i][c]]]]

\* the loop of load_quotes_data over the sorted week folders; df is the object that
\* load_csvs_from_folder returned, which is the one the cache holds
RECURSIVE LoadSelected(_, _, _, _)
LoadSelected(week_folders, st, selected_year_weeks, fail) ==
    IF week_folders = <<>> \/ st.err # "none" THEN st
    ELSE LET wf == Head(week_folders)
         IN  IF <<wf.year, wf.week>> \notin selected_year_weeks
             THEN LoadSelected(Tail(week_folders), st, selected_year_weeks, fail)
             ELSE LET r   == load_csvs_from_folder(st.cache, wf.id, IF fail = "load" THEN "list" ELSE "none")
                      add == r.err = "none" /\ ~DfEmpty(r.table)
                  IN  LoadSelected(Tail(week_folders),
                                   [cache    |-> IF add THEN [r.cache EXCEPT ![wf.id].table = WithWeekYear(r.table, wf)]
                                                 ELSE r.cache,
                                    calls    |-> st.calls \o r.calls,
                                    err      |-> r.err,
                                    all_data |-> IF add THEN Append(st.all_data, WithWeekYear(r.table, wf).rows)
                                                 ELSE st.all_data],
                                   selected_year_weeks, fail)

\* the (year, week) pairs the user can select
SampleYearWeeks == {<<2024, 52>>, <<2025, 1>>}

load_quotes_data(selected_year_weeks, fail) ==
    /\ op' = [name |-> "load_quotes_data", num_weeks |-> 0, folder |-> 0]
    /\ UNCHANGED <<folders, files>>
    /\ IF fail = "search"
       THEN /\ ret' = Raised("backend", <<SearchCall>>)
            /\ UNCHANGED csv_cache
       ELSE \E week_folders \in {SortedDesc(PatternFolders(search_folders))} :
            \E st \in {LoadSelected(week_folders,
                                     [cache |-> csv_cache, calls |-> <<>>, err |-> "none", all_data |-> <<>>],
                                     selected_year_weeks, fail)} :
                /\ csv_cache' = st.cache
                /\ ret' = IF st.err # "none" THEN Raised(st.err, <<SearchCall>> \o st.calls)
                          ELSE [NoRet EXCEPT !.table = CombineFiles(st.all_data).table,
                                             !.calls = <<SearchCall>> \o st.calls]

\* the loaders and the lanes report over one cache
NextQuotes ==
    \/ DriveChanges({NameW5224, NameW0125}, {FileA, FileB})
    \/ clear_csv_cache
    \/ \E folder_id \in FolderIds : LoadCsvs(folder_id, "none")
    \/ \E selected_year_weeks \in SUBSET SampleYearWeeks, fail \in Failures :
          load_quotes_data(selected_year_weeks, fail)
    \/ generate_report(MaxWeeks, "none")
    \/ generate_lanes_report(MaxWeeks, "none")

SpecQuotes == Init /\ [][NextQuotes]_vars

(***************************************************************************)
(* One load of a session interleaved with clear_csv_cache of another: the  *)
(* sessions run as threads of one process and share _csv_cache, and the    *)
(* code takes no lock.  op is the loading session's position: "fetched"    *)
(* between the downloads and the store into the cache, "done" after it.    *)
(***************************************************************************)
Idle == [name |-> "idle", num_weeks |-> 0, folder |-> 0, pc |-> "idle", cleared |-> FALSE]

\* two week folders exist, with any of the sample files in them
InitConcurrent ==
    /\ folders = <<[id |-> 1, name |-> NameW5224], [id |-> 2, name |-> NameW0125]>>
    /\ files \in [FolderIds -> {<<>>, <<FileA>>, <<FileB>>, <<FileA, FileB>>}]
    /\ csv_cache = [f \in FolderIds |-> NotCached]
    /\ op = Idle
    /\ ret = NoRet

\* load_csvs_from_folder up to the last download: the cache check, the listing, the
\* downloads and the concat, all on local variables
LoadStart(folder_id) ==
    /\ op.pc # "fetched"
    /\ folder_id \in 1..Len(folders)
    /\ IF csv_cache[folder_id].cached
       THEN /\ op' = [Idle EXCEPT !.name = "load_csvs_from_folder", !.folder = folder_id, !.pc = "done"]
            /\ ret' = [NoRet EXCEPT !.table = csv_cache[folder_id].table]
       ELSE /\ op' = [Idle EXCEPT !.name = "load_csvs_from_folder", !.folder = folder_id, !.pc = "fetched"]
            /\ ret' = [NoRet EXCEPT !.table = FetchAndCache(csv_cache, folder_id, "none").table,
                                    !.calls = FetchAndCache(csv_cache, folder_id, "none").calls]
    /\ UNCHANGED <<folders, files, csv_cache>>

\* _csv_cache[folder_id] = combined; return combined: the store goes into the dict
\* the global names at that moment
LoadStore ==
    /\ op.pc = "fetched"
    /\ csv_cache' = [csv_cache EXCEPT ![op.folder] = [cached |-> TRUE, table |-> ret.table]]
    /\ op' = [op EXCEPT !.pc = "done"]
    /\ UNCHANGED <<folders, files, ret>>

\* clear_csv_cache called by another session; op.cleared records that it ran while
\* the load was between its fetch and its store
ClearConcurrent ==
    /\ csv_cache' = [f \in FolderIds |-> NotCached]
    /\ op' = [op EXCEPT !.cleared = (op.pc = "fetched")]
    /\ UNCHANGED <<folders, files, ret>>

NextConcurrent ==
    \/ \E folder_id \in FolderIds : LoadStart(folder_id)
    \/ LoadStore
    \/ ClearConcurrent

SpecConcurrent == InitConcurrent /\ [][NextConcurrent]_vars

(***************************************************************************)
(* The lane and region statistics as functions of one period's table.      *)
(***************************************************************************)
\* a rated quote from 90001 to 10001
RowR == [Row3 EXCEPT !.rate = <<"7">>]

StatRows == {Row1, Row2, Row3, Row4, Row5, RowR, RowU1}

\* the tables one period can hold: without columns, or with up to MaxRows rows
StatTables == {EmptyDataFrame} \cup {[cols |-> TRUE, rows |-> t] : t \in UNION {[1..k -> StatRows] : k \in 0..MaxRows}}

\* an airport-to-region mapping that puts both airports in one region
RegionMappingOneRegion == (<<"J", "F", "K">> :> <<"E", "A", "S", "T">>) @@ (<<"L", "A", "X">> :> <<"E", "A", "S", "T">>)

NoStats == [err |-> "none", stats |-> EmptyStats]

\* a statistics function is about to be called on a table
InitStats ==
    /\ folders = <<>>
    /\ files = [f \in FolderIds |-> <<>>]
    /\ csv_cache = [f \in FolderIds |-> NotCached]
    /\ op \in [name : {"call"}, fn : {"calculate_lanes_stats", "calculate_regions_stats"}, df : StatTables,
               zip_mapping : {ZipMapping}, region_mapping : {RegionMapping, RegionMappingOneRegion}]
    /\ ret = NoStats

LanesStats ==
    /\ op.name = "call" /\ op.fn = "calculate_lanes_stats"
    /\ op' = [op EXCEPT !.name = "calculate_lanes_stats"]
    /\ ret' = [err |-> "none", stats |-> calculate_lanes_stats(op.df, op.zip_mapping)]
    /\ UNCHANGED <<folders, files, csv_cache>>

RegionsStats ==
    /\ op.name = "call" /\ op.fn = "calculate_regions_stats"
    /\ op' = [op EXCEPT !.name = "calculate_regions_stats"]
    /\ ret' = [err |-> "none", stats |-> calculate_regions_stats(op.df, op.zip_mapping, op.region_mapping)]
    /\ UNCHANGED <<folders, files, csv_cache>>

NextStats == LanesStats \/ RegionsStats

SpecStats == InitStats /\ [][NextStats]_vars

(***************************************************************************)
(* Properties.                                                             *)
(***************************************************************************)
Generators == {"generate_report", "generate_lanes_report", "generate_regions_report"}

\* a report generator has returned (or raised for a reason other than the backend)
Answered == op.name \in Generators /\ ret.err # "backend"

Returned(opname) == op.name = opname /\ ret.err = "none"

\* the folder name is exactly W<2-digit week><2-digit year> Quotes
MatchesPeriodPattern(name) ==
    /\ Len(name) = 12
    /\ name[1] = "W"
    /\ \A i \in 2..5 : name[i] \in Digit
    /\ SubSeq(name, 6, 12) = <<" ">> \o QuotesWord

PeriodOfName(name) ==
    [year |-> 2000 + 10 * DigitVal(name[4]) + DigitVal(name[5]),
     week |-> 10 * DigitVal(name[2]) + DigitVal(name[3])]

PeriodLabel(p) ==
    <<"W", DigitChars[(p.week \div 10) + 1], DigitChars[(p.week % 10) + 1],
      "Y", DigitChars[((p.year % 100) \div 10) + 1], DigitChars[(p.year % 10) + 1]>>

AvailablePeriods == {PeriodOfName(folders[i].name) : i \in {j \in 1..Len(folders) : MatchesPeriodPattern(folders[j].name)}}

\* the labels of the n most recent available periods, oldest first
ExpectedLabels(n) ==
    LET recent == {p \in AvailablePeriods : Cardinality({q \in AvailablePeriods : KeyLess(p, q)}) < n}
        order  == CHOOSE s \in Perms(recent) : \A i, j \in DOMAIN s : i < j => KeyLess(s[i], s[j])
    IN  [i \in 1..Len(order) |-> PeriodLabel(order[i])]

\* the (year, week) a label W<ww>Y<yy> stands for
LabelKey(label) ==
    [year |-> 10 * DigitVal(label[5]) + DigitVal(label[6]),
     week |-> 10 * DigitVal(label[2]) + DigitVal(label[3])]

\* C1 (as claimed): for any folder listing and any N >= 1 each report generator
\* answers without error and returns the labels of exactly the min(N, number of
\* available periods) most recent periods in (year, week) order, oldest first.
\* The code violates it (no week folder at all makes generate_report raise; two
\* folders of one period give a repeated label).
C1_LastPeriodsSelected ==
    Answered => ret.err = "none" /\ ret.labels = ExpectedLabels(op.num_weeks)

\* C2 (as claimed): the week labels of every returned report are pairwise distinct
\* and strictly increasing left to right, also when two folders resolve to the
\* same (year, week).  The code violates it: it never removes duplicates.
C2_PeriodKeysStrictlyIncreasing ==
    (op.name \in Generators /\ ret.err = "none") =>
        \A i, j \in 1..Len(ret.labels) : i < j => KeyLess(LabelKey(ret.labels[i]), LabelKey(ret.labels[j]))

\* C3 (as claimed): only folders named exactly W<ww><yy> Quotes become periods: every
\* label of a report is the label of some folder whose name matches the pattern.
\* The code violates it: "W0225 Quotes old" becomes period W02Y25.
C3_OnlyMatchingFoldersArePeriods ==
    (op.name \in Generators /\ ret.err = "none") =>
        \A i \in 1..Len(ret.labels) :
            \E j \in 1..Len(folders) :
                /\ MatchesPeriodPattern(folders[j].name)
                /\ PeriodLabel(PeriodOfName(folders[j].name)) = ret.labels[i]

\* what an uncached load of the folder returns now
FreshTable(folder_id) == FetchAndCache([f \in FolderIds |-> NotCached], folder_id, "none").table

NoCsvFiles(folder_id) ==
    \A i \in 1..Len(files[folder_id]) :
        ~(Contains(files[folder_id][i].mimeType, <<"c", "s", "v">>)
          /\ EndsWith(files[folder_id][i].name, <<".", "c", "s", "v">>))

\* C5: a load of a folder without CSV files does not raise and returns an empty
\* table, on the uncached call and on the cached ones, and the cache holds an empty
\* table for the folder.
C5_EmptyFolderEmptyTable ==
    (op.name = "load_csvs_from_folder" /\ NoCsvFiles(op.folder) /\ ret.err # "backend") =>
        /\ ret.err = "none"
        /\ DfEmpty(ret.table)
        /\ csv_cache[op.folder].cached
        /\ DfEmpty(csv_cache[op.folder].table)

\* C5 witness: a cached load of a folder that holds a file, but no CSV file
C5_EmptyFolderCachedLoad ==
    /\ Returned("load_csvs_from_folder")
    /\ NoCsvFiles(op.folder)
    /\ files[op.folder] # <<>>
    /\ ret.calls = <<>>
    /\ DfEmpty(ret.table)

\* the week folders the last report selected
Selected == SelectWeekFolders(search_folders, op.num_weeks)

\* the table the last report used (or would have used) for a folder
TableUsed(folder_id) ==
    IF csv_cache[folder_id].cached THEN csv_cache[folder_id].table ELSE FreshTable(folder_id)

\* the folder whose statistics stand under a label: the last selected one of that label
Supplier(label) ==
    Selected[CHOOSE i \in DOMAIN Selected :
                /\ WeekLabel(Selected[i]) = label
                /\ \A j \in DOMAIN Selected : WeekLabel(Selected[j]) = label => j <= i]

\* C6 (as claimed): when a selected period has no CSV file and another selected period
\* has data, the report generator completes without error and every row has the
\* columns of the empty period, with zero counts.  The code violates it:
\* generate_report raises KeyError on the empty period.
C6_EmptyPeriodZeroFilled ==
    (Answered /\ \E i, j \in DOMAIN Selected :
                    DfEmpty(TableUsed(Selected[i].id)) /\ ~DfEmpty(TableUsed(Selected[j].id))) =>
        /\ ret.err = "none"
        /\ \A k \in 1..Len(ret.rows), i \in DOMAIN Selected :
              /\ WeekLabel(Selected[i]) \in DOMAIN ret.rows[k].cells
              /\ DfEmpty(TableUsed(Selected[i].id)) =>
                    IF op.name = "generate_report"
                    THEN \A m \in CustomerMetrics : ret.rows[k].cells[WeekLabel(Selected[i])][m] = 0
                    ELSE ret.rows[k].cells[WeekLabel(Selected[i])]["Total"] = 0

\* C7: in a customer report, in the row of entity E and under period P, Rated and
\* Total Quotes are the numbers of rated rows and of rows of E in the table of P, and
\* % Rated is Rated / Total Quotes * 100 rounded to two decimals (hundredths of a
\* percent here) when Total Quotes > 0, and 0 when it is 0.
C7_PctRatedOfEntityRows ==
    Returned("generate_report") =>
        \A k \in 2..Len(ret.rows) : \A l \in DOMAIN ret.rows[k].cells :
            LET cell  == ret.rows[k].cells[l]
                table == csv_cache[Supplier(l).id].table
                total == Len(SelectSeq(table.rows, LAMBDA r : r.customer = ret.rows[k].name))
                rated == Len(SelectSeq(table.rows, LAMBDA r : r.customer = ret.rows[k].name /\ IsRated(r)))
            IN  /\ cell["Total Quotes"] = total
                /\ cell["Rated"] = rated
                /\ IF total > 0
                   THEN 2 * Abs(cell["% Rated"] * total - rated * 10000) <= total
                   ELSE cell["% Rated"] = 0

\* C7 witness: a customer report with a percentage that had to be rounded and a
\* zero-filled cell
C7_RoundedAndZeroFilled ==
    /\ Returned("generate_report")
    /\ \E k \in 2..Len(ret.rows) : \E l \in DOMAIN ret.rows[k].cells :
          /\ ret.rows[k].cells[l]["Total Quotes"] > 0
          /\ ret.rows[k].cells[l]["% Rated"] * ret.rows[k].cells[l]["Total Quotes"]
                # ret.rows[k].cells[l]["Rated"] * 10000
    /\ \E k \in 2..Len(ret.rows) : \E l \in DOMAIN ret.rows[k].cells :
          ret.rows[k].cells[l]["Total Quotes"] = 0 /\ ret.rows[k].cells[l]["% Rated"] = 0

\* C8: in a customer report the Booked, Rated and Total Quotes of the TOTAL row are,
\* for every period, the sums of the column over all the other rows.
C8_TotalRowSums ==
    Returned("generate_report") =>
        \A l \in DOMAIN ret.rows[1].cells : \A m \in {"Booked", "Rated", "Total Quotes"} :
            ret.rows[1].cells[l][m] = SumInts([k \in 1..(Len(ret.rows) - 1) |-> ret.rows[k + 1].cells[l][m]])

\* C8 witness: a TOTAL row over two customers that both have quotes in one period
C8_TotalOverTwoCustomers ==
    /\ Returned("generate_report")
    /\ Len(ret.rows) = 3
    /\ \E l \in DOMAIN ret.rows[1].cells :
          /\ ret.rows[2].cells[l]["Total Quotes"] > 0
          /\ ret.rows[3].cells[l]["Total Quotes"] > 0
          /\ ret.rows[1].cells[l]["Booked"] # ret.rows[1].cells[l]["Rated"]

\* C9: every customer report that generate_report returns has the TOTAL row, as
\* its first row, and no other row is the TOTAL row.
C9_TotalRowFirst ==
    Returned("generate_report") =>
        /\ Len(ret.rows) >= 1
        /\ ret.rows[1].name = TotalName
        /\ \A k \in 2..Len(ret.rows) : ret.rows[k].name # TotalName

\* C9 witness: a report with two customer rows below the TOTAL row
C9_TotalAboveCustomers ==
    /\ Returned("generate_report")
    /\ Len(ret.rows) = 3
    /\ ret.rows[1].name = TotalName

\* C10 (as claimed): in a lanes or regions report, for every row and every period i
\* of the window, %Change is null when i is the first period or the previous
\* period's Total is 0, and (Total_i - Total_{i-1}) / Total_{i-1} * 100 otherwise.
\* The code violates it when two folders resolve to one period (see C2): the first
\* period's %Change is then 0.
C10_PctChange ==
    (op.name \in {"generate_lanes_report", "generate_regions_report"} /\ ret.err = "none") =>
        \A k \in 1..Len(ret.rows) : \A i \in 1..Len(ret.labels) :
            LET cur    == ret.rows[k].cells[ret.labels[i]]["Total"]
                change == ret.rows[k].cells[ret.labels[i]]["%Change"]
                prev   == IF i > 1 THEN ret.rows[k].cells[ret.labels[i - 1]]["Total"] ELSE 0
            IN  IF i = 1 \/ prev = 0 THEN change.null
                ELSE ~change.null /\ change.num * prev = (cur - prev) * 100 * change.den

\* the statistics kind of a report generator
KindOf(opname) ==
    CASE opname = "generate_report"         -> "customer"
      [] opname = "generate_lanes_report"   -> "lanes"
      [] opname = "generate_regions_report" -> "regions"

\* the entity rows of the last report (the customer report has the TOTAL row first)
EntityRows == IF op.name = "generate_report" THEN Tail(ret.rows) ELSE ret.rows

\* the entities in the statistics of the i-th selected folder
ActiveIn(i) == DOMAIN StatsOf(KindOf(op.name), csv_cache[Selected[i].id].table).groups

\* C11: in every returned report each entity in the statistics of some selected
\* folder has exactly one row, and a row has zero counts under every period in none
\* of whose folders the entity occurs.
C11_OneRowPerEntityZeroFilled ==
    (op.name \in Generators /\ ret.err = "none") =>
        /\ \A i \in DOMAIN Selected : \A e \in ActiveIn(i) :
              Cardinality({k \in 1..Len(EntityRows) : EntityRows[k].name = e}) = 1
        /\ \A k \in 1..Len(EntityRows) : \A i \in DOMAIN Selected :
              LET label == WeekLabel(Selected[i])
                  cell  == EntityRows[k].cells[label]
              IN  (\A j \in DOMAIN Selected :
                       WeekLabel(Selected[j]) = label => EntityRows[k].name \notin ActiveIn(j)) =>
                     /\ label \in DOMAIN EntityRows[k].cells
                     /\ IF op.name = "generate_report"
                        THEN cell["Booked"] = 0 /\ cell["Rated"] = 0 /\ cell["Total Quotes"] = 0
                        ELSE cell["Total"] = 0

\* C11 witness: a customer report with a customer that has quotes in one selected
\* period and none in another
C11_CustomerZeroFilledInOnePeriod ==
    /\ Returned("generate_report")
    /\ \E k \in 1..Len(EntityRows) : \E l1, l2 \in DOMAIN EntityRows[k].cells :
          /\ EntityRows[k].cells[l1]["Total Quotes"] = 0
          /\ EntityRows[k].cells[l2]["Total Quotes"] > 0

\* the value is missing or blank
Blank(v) == v = NaN \/ \A i \in 1..Len(v) : v[i] = " "

\* the text before the first character of `seps`, without the blanks around it
CoreBefore(s, seps) ==
    LET stops == {i \in 1..Len(s) : s[i] \in seps}
        cut   == IF stops = {} THEN Len(s) + 1 ELSE CHOOSE i \in stops : \A j \in stops : i <= j
        solid == {i \in 1..(cut - 1) : s[i] # " "}
    IN  IF solid = {} THEN <<>>
        ELSE SubSeq(s, CHOOSE i \in solid : \A j \in solid : i <= j,
                       CHOOSE i \in solid : \A j \in solid : i >= j)

\* a ZIP text brought to five characters: zeros in front, or cut after the fifth
FiveChars(core) ==
    IF Len(core) >= 5 THEN SubSeq(core, 1, 5)
    ELSE [i \in 1..5 |-> IF i <= 5 - Len(core) THEN "0" ELSE core[i - (5 - Len(core))]]

UpperOf(c) == CASE c = "j" -> "J" [] c = "f" -> "F" [] c = "k" -> "K" [] OTHER -> c

Analyzed == op.name = "analyze_expansion_opportunities" /\ ret.err = "none"

\* a ZIP value normalized to 5 digits: suffix after '-' or '.' removed, trimmed, zero-padded
Zip5(v) == FiveChars(CoreBefore(Str(v), {"-", "."}))

\* C14 (as claimed): every ZIP the analysis lists is a 5-digit ZIP that is not the
\* normalized pickup or dropoff ZIP of any rated row, and its quote_count is the
\* number of its occurrences as pickup plus as dropoff over the unrated rows.  The
\* code violates it: the analyzer trims and cuts to five characters without
\* zero-padding, so a rated '1234' does not make '01234' serviced.
C14_ListedZipsAreUnserviced ==
    Analyzed =>
        \A k \in 1..Len(ret.results) :
            LET z == ret.results[k].zip_code
            IN  /\ IsFiveDigits(z)
                /\ \A c \in ZipCells(op.quotes_df, TRUE) : Zip5(op.quotes_df[c[1]][c[2]]) # z
                /\ ret.results[k].quote_count =
                      Cardinality({c \in ZipCells(op.quotes_df, FALSE) : Zip5(op.quotes_df[c[1]][c[2]]) = z})

\* the serviced ZIPs that have a centroid
ServicedWithCentroid == {z \in DOMAIN op.centroids_df : \E c \in ZipCells(op.quotes_df, TRUE) :
                            Clean(op.quotes_df[c[1]][c[2]]) = z}

\* the squared distance of two ZIPs' centroids, in square miles
MilesSq(a, b) ==
    LET dx == (op.centroids_df[a].x - op.centroids_df[b].x) \div CmPerMile
        dy == (op.centroids_df[a].y - op.centroids_df[b].y) \div CmPerMile
    IN  dx * dx + dy * dy

\* C15: for every listed ZIP with a centroid, when some serviced ZIP has a centroid,
\* nearest_serviced_zip is a serviced ZIP with a centroid, no serviced centroid is
\* strictly closer, and distance_miles is the Euclidean distance of the two centroids
\* divided by 1609.34 m.
C15_NearestServicedAndDistance ==
    Analyzed =>
        \A k \in 1..Len(ret.results) :
            LET row == ret.results[k]
                d   == row.distance_miles
            IN  (row.zip_code \in DOMAIN op.centroids_df /\ ServicedWithCentroid # {}) =>
                   /\ row.nearest_serviced_zip \in ServicedWithCentroid
                   /\ ~d.null /\ d.den = CmPerMile /\ d.num % CmPerMile = 0
                   /\ (d.num \div CmPerMile) * (d.num \div CmPerMile)
                         = MilesSq(row.zip_code, row.nearest_serviced_zip)
                   /\ \A o \in ServicedWithCentroid :
                         MilesSq(row.zip_code, o) >= MilesSq(row.zip_code, row.nearest_serviced_zip)

\* C15 witness: serviced 10001 at (0,0) and unserviced 10002 at (1609.34 m, 0) give
\* nearest 10001 at 1 mile
C15_ExampleOneMile ==
    /\ Analyzed
    /\ op.centroids_df = CentroidsExample
    /\ \E k \in 1..Len(ret.results) :
          /\ ret.results[k].zip_code = Zip10002
          /\ ret.results[k].nearest_serviced_zip = Zip10001
          /\ ~ret.results[k].distance_miles.null
          /\ ret.results[k].distance_miles.num = ret.results[k].distance_miles.den

\* the ZIPs the analyzer counts: 5-digit cells of unrated rows that no rated row holds
UnservicedZips ==
    {z \in {Clean(op.quotes_df[c[1]][c[2]]) : c \in ZipCells(op.quotes_df, FALSE)} :
        /\ IsFiveDigits(z)
        /\ \A c \in ZipCells(op.quotes_df, TRUE) : Clean(op.quotes_df[c[1]][c[2]]) # z}

\* the number of unrated pickup and dropoff cells that hold the ZIP
UnratedOccurrences(z) ==
    Cardinality({c \in ZipCells(op.quotes_df, FALSE) : Clean(op.quotes_df[c[1]][c[2]]) = z})

\* C16: an unserviced ZIP without a centroid stays in the result with its quote_count,
\* a null distance and no nearest ZIP, and is not among the filtered rows; the filtered
\* rows are exactly the result rows, in order, with quote_count >= minimum, a non-null
\* distance and distance <= maximum; the result table still holds one row for each
\* unserviced ZIP, with its count, in descending order of count.
C16_NoCentroidKeptAndFilterExact ==
    Analyzed =>
        /\ \A z \in UnservicedZips \ DOMAIN op.centroids_df :
              /\ \E k \in 1..Len(ret.results) :
                    /\ ret.results[k].zip_code = z
                    /\ ret.results[k].quote_count = UnratedOccurrences(z)
                    /\ ret.results[k].distance_miles.null
                    /\ ret.results[k].nearest_serviced_zip = NoZip
              /\ \A k \in 1..Len(ret.filtered) : ret.filtered[k].zip_code # z
        /\ ret.filtered = SelectSeq(ret.results,
                                    LAMBDA r : /\ r.quote_count >= op.min_quotes
                                               /\ ~r.distance_miles.null
                                               /\ r.distance_miles.num <= op.max_distance * r.distance_miles.den)
        /\ Len(ret.results) = Cardinality(UnservicedZips)
        /\ \A k \in 1..Len(ret.results) :
              /\ ret.results[k].zip_code \in UnservicedZips
              /\ ret.results[k].quote_count = UnratedOccurrences(ret.results[k].zip_code)
              /\ k > 1 => ret.results[k - 1].quote_count >= ret.results[k].quote_count

\* C16 witness: a listed ZIP without a centroid is filtered out while a ZIP exactly at
\* the maximum distance is kept
C16_NoCentroidDroppedBoundaryKept ==
    /\ Analyzed
    /\ \E k \in 1..Len(ret.results) :
          /\ ret.results[k].zip_code \notin DOMAIN op.centroids_df
          /\ ret.results[k].quote_count >= op.min_quotes
          /\ ret.results[k].distance_miles.null
    /\ \E k \in 1..Len(ret.filtered) :
          ret.filtered[k].distance_miles.num = op.max_distance * ret.filtered[k].distance_miles.den
    /\ Len(ret.filtered) < Len(ret.results)

\* C17 (as claimed): the analyzer returns four values on every path, so main's 4-way
\* unpacking never fails.  The code violates it: when every ZIP of the unrated rows is
\* serviced (zip_counts is empty) it returns two values and the unpacking raises
\* ValueError.
C17_AlwaysFourValues ==
    op.name = "analyze_expansion_opportunities" => ret.arity = 4 /\ ret.err = "none"

\* C18 (as claimed): no percentage is Infinity or NaN; here for the % Not Serviced
\* column of the airport and region summaries.  The code violates it: Total Quotes
\* counts pickups only, so a bucket whose ZIPs occur only as dropoff has Total Quotes 0
\* and its % Not Serviced is a division by zero, which pandas answers with inf.
C18_PctNotServicedFinite ==
    Analyzed =>
        /\ \A b \in DOMAIN ret.airport_summary : ret.airport_summary[b].pct_not_serviced.finite
        /\ \A b \in DOMAIN ret.region_summary : ret.region_summary[b].pct_not_serviced.finite

\* a load of the folder raised the backend's error
LoadFailed == op.name = "load_csvs_from_folder" /\ ret.err = "backend"

\* C19: a load that fails in the listing or in a download raises the backend's error
\* after a single listing and at most one download per listed file (no retry), stores
\* nothing: the folder has no cache entry and every cache entry is as before; and the
\* next load of the same folder starts with a listing of the backend again.
C19_FailedLoadLeavesCacheAlone ==
    [][/\ (op'.name = "load_csvs_from_folder" /\ ret'.err = "backend") =>
            /\ csv_cache' = csv_cache
            /\ ~csv_cache'[op'.folder].cached
            /\ ret'.calls[1] = ListCall(op'.folder)
            /\ \A i \in 2..Len(ret'.calls) : ret'.calls[i].kind = "download"
            /\ Len(ret'.calls) <= 1 + Len(list_files_in_folder(op'.folder))
       /\ (LoadFailed /\ op'.name = "load_csvs_from_folder" /\ op'.folder = op.folder) =>
            /\ ret'.calls # <<>>
            /\ ret'.calls[1] = ListCall(op.folder)
      ]_vars

\* C19 witness: a download failed after another folder had been cached, and the
\* failed folder has no entry
C19_DownloadFailedOtherFolderCached ==
    /\ LoadFailed
    /\ Len(ret.calls) > 1
    /\ ~csv_cache[op.folder].cached
    /\ \E f \in FolderIds : csv_cache[f].cached /\ ~DfEmpty(csv_cache[f].table)

\* the sum of a column of the customer report over the rows below the TOTAL row
SumBelowTotal(l, m) == SumInts([k \in 1..(Len(ret.rows) - 1) |-> ret.rows[k + 1].cells[l][m]])

\* C20 (as claimed): every metric of the TOTAL row, % Rated included, is the sum of
\* its column over the entity rows.
C20_TotalSumsEveryColumn ==
    Returned("generate_report") =>
        \A l \in DOMAIN ret.rows[1].cells : \A m \in CustomerMetrics :
            ret.rows[1].cells[l][m] = SumBelowTotal(l, m)

\* C20 (amended): Booked, Rated and Total Quotes of the TOTAL row are the sums of
\* their columns over the entity rows; % Rated of the TOTAL row is the summed Rated
\* over the summed Total Quotes, times 100, rounded to two decimals, and 0 when the
\* summed Total Quotes is 0.
C20_TotalPctFromSummedCounts ==
    Returned("generate_report") =>
        \A l \in DOMAIN ret.rows[1].cells :
            LET rated == SumBelowTotal(l, "Rated")
                total == SumBelowTotal(l, "Total Quotes")
                pct   == ret.rows[1].cells[l]["% Rated"]
            IN  /\ ret.rows[1].cells[l]["Booked"] = SumBelowTotal(l, "Booked")
                /\ ret.rows[1].cells[l]["Rated"] = rated
                /\ ret.rows[1].cells[l]["Total Quotes"] = total
                /\ IF total > 0 THEN 2 * Abs(pct * total - rated * 10000) <= total ELSE pct = 0

\* C20 witness: two customers with quotes in one period, where the TOTAL row's
\* % Rated differs from the sum of the % Rated column
C20_TotalPctIsNotTheColumnSum ==
    /\ Returned("generate_report")
    /\ Len(ret.rows) = 3
    /\ \E l \in DOMAIN ret.rows[1].cells :
          /\ ret.rows[2].cells[l]["Total Quotes"] > 0
          /\ ret.rows[3].cells[l]["Total Quotes"] > 0
          /\ ret.rows[1].cells[l]["% Rated"] # SumBelowTotal(l, "% Rated")
          /\ ret.rows[1].cells[l]["% Rated"] <= 10000

\* the total quote volume of row k of the returned customer report over the returned
\* periods
RowVolume(k) ==
    SumInts([i \in 1..Len(ret.labels) |-> ret.rows[k].cells[ret.labels[i]]["Total Quotes"]])

\* C21: in a customer report the rows below the TOTAL row are in non-increasing order
\* of their total quote volume over the selected periods, and a row holds nothing but
\* its name and the four metrics of each period (no _total_volume).
C21_CustomersByVolume ==
    Returned("generate_report") =>
        /\ \A k \in 3..Len(ret.rows) : RowVolume(k - 1) >= RowVolume(k)
        /\ \A k \in 1..Len(ret.rows) :
              /\ DOMAIN ret.rows[k] = {"name", "cells"}
              /\ \A l \in DOMAIN ret.rows[k].cells : DOMAIN ret.rows[k].cells[l] = CustomerMetrics

\* C21 witness: two customers of different volume over two distinct periods
C21_LargerVolumeFirst ==
    /\ Returned("generate_report")
    /\ Len(ret.rows) = 3
    /\ Len(ret.labels) = 2
    /\ ret.labels[1] # ret.labels[2]
    /\ RowVolume(2) > RowVolume(3)
    /\ ret.rows[3].cells[ret.labels[1]]["Total Quotes"] > 0

\* a lanes or regions report was returned
LanesLikeReturned == Returned("generate_lanes_report") \/ Returned("generate_regions_report")

\* the Total of row k in the most recent period of the returned window
RowLatestTotal(k) == ret.rows[k].cells[ret.labels[Len(ret.labels)]]["Total"]

\* C22: in a lanes or regions report the rows are in non-increasing order of their
\* Total in the most recent period, no row is a TOTAL row, and a row holds nothing but
\* its name and the Total and %Change of each period (no _latest_total).
C22_LanesByLatestTotal ==
    LanesLikeReturned =>
        /\ \A k \in 2..Len(ret.rows) : RowLatestTotal(k - 1) >= RowLatestTotal(k)
        /\ \A k \in 1..Len(ret.rows) :
              /\ ret.rows[k].name # TotalName
              /\ DOMAIN ret.rows[k] = {"name", "cells"}
              /\ \A l \in DOMAIN ret.rows[k].cells : DOMAIN ret.rows[k].cells[l] = {"Total", "%Change"}

\* C22 witness: two lanes over two distinct periods, the first row larger in the most
\* recent period and not larger in the one before
C22_LatestPeriodDecides ==
    /\ LanesLikeReturned
    /\ Len(ret.rows) >= 2
    /\ Len(ret.labels) = 2
    /\ ret.labels[1] # ret.labels[2]
    /\ RowLatestTotal(1) > RowLatestTotal(2)
    /\ ret.rows[1].cells[ret.labels[1]]["Total"] <= ret.rows[2].cells[ret.labels[1]]["Total"]

\* the number of columns of row k of the returned report: the entity column and one
\* column for every metric of every period the row holds
ColumnCount(k) ==
    1 + SumInts([i \in 1..Len(ret.labels) |->
                   IF \E j \in 1..(i - 1) : ret.labels[j] = ret.labels[i] THEN 0
                   ELSE Cardinality(DOMAIN ret.rows[k].cells[ret.labels[i]])])

\* C23 (as claimed): every non-empty report has |periods| * metrics_per_period + 1
\* columns, 4 metrics for the customer report and 2 for lanes and regions, |periods|
\* being the length of the returned week-label list.  The code violates it when two
\* selected folders have the same label: the label list has two entries and the table
\* one column group.
C23_ColumnCount ==
    (op.name \in Generators /\ ret.err = "none" /\ ret.rows # <<>>) =>
        \A k \in 1..Len(ret.rows) :
            ColumnCount(k) = Len(ret.labels) * (IF op.name = "generate_report" THEN 4 ELSE 2) + 1

\* the rate cell holds something other than blanks
HasRate(row) == row.rate # NaN /\ \E i \in 1..Len(row.rate) : ~IsSpace(row.rate[i])

\* the rows of the table the statistics function was called on
StatInput == IF op.df.cols THEN op.df.rows ELSE <<>>

\* C24: each lane of calculate_lanes_stats is the lane of some rated row, its total is
\* the number of rated rows whose origin and destination airport codes form it, and
\* the totals sum to the number of rated rows, so unrated rows count nowhere.
C24_LanesCountRatedRows ==
    op.name = "calculate_lanes_stats" =>
        LET rated   == {i \in 1..Len(StatInput) : HasRate(StatInput[i])}
            lane(i) == get_airport_code(StatInput[i].pickup, op.zip_mapping) \o <<"-">>
                          \o get_airport_code(StatInput[i].dropoff, op.zip_mapping)
            groups  == ret.stats.groups
            lanes   == CHOOSE q \in Perms(DOMAIN groups) : TRUE
        IN  /\ DOMAIN groups = {lane(i) : i \in rated}
            /\ \A l \in DOMAIN groups : groups[l].total = Cardinality({i \in rated : lane(i) = l})
            /\ SumInts([k \in 1..Len(lanes) |-> groups[lanes[k]].total]) = Cardinality(rated)

\* C24 witness: a table with rated and unrated rows on the same lane and a second lane
C24_MixedTable ==
    /\ op.name = "calculate_lanes_stats"
    /\ Cardinality(DOMAIN ret.stats.groups) = 2
    /\ \E i, j \in 1..Len(StatInput) :
          /\ HasRate(StatInput[i]) /\ ~HasRate(StatInput[j])
          /\ StatInput[i].pickup = StatInput[j].pickup /\ StatInput[i].dropoff = StatInput[j].dropoff

\* the text after the first `sep` of s
RECURSIVE AfterFirst(_, _)
AfterFirst(s, sep) == IF s = <<>> THEN <<>> ELSE IF s[1] = sep THEN Tail(s) ELSE AfterFirst(Tail(s), sep)

\* the region pair of a lane: the regions of its origin and of its destination code
RegionPairOfLane(lane, region_mapping) ==
    get_region(BeforeFirst(lane, "-"), region_mapping) \o <<"-">>
        \o get_region(AfterFirst(lane, "-"), region_mapping)

\* C25: on the same table and mappings, the region pairs of calculate_regions_stats
\* are the region pairs of the lanes of calculate_lanes_stats, and each region pair's
\* total is the sum of the totals of the lanes that map to it.
C25_RegionsAreLanesByRegion ==
    op.name = "calculate_regions_stats" =>
        LET lanes   == calculate_lanes_stats(op.df, op.zip_mapping).groups
            regions == ret.stats.groups
            order   == CHOOSE q \in Perms(DOMAIN lanes) : TRUE
        IN  /\ DOMAIN regions = {RegionPairOfLane(l, op.region_mapping) : l \in DOMAIN lanes}
            /\ \A g \in DOMAIN regions :
                  regions[g].total =
                     SumInts([k \in 1..Len(order) |->
                                IF RegionPairOfLane(order[k], op.region_mapping) = g
                                THEN lanes[order[k]].total ELSE 0])

\* C25 witness: two lanes with quotes fall into one region pair
C25_TwoLanesOneRegionPair ==
    /\ op.name = "calculate_regions_stats"
    /\ \E l1, l2 \in DOMAIN calculate_lanes_stats(op.df, op.zip_mapping).groups :
          /\ l1 # l2
          /\ RegionPairOfLane(l1, op.region_mapping) = RegionPairOfLane(l2, op.region_mapping)
    /\ \E g \in DOMAIN ret.stats.groups : ret.stats.groups[g].total >= 2

\* the columns of a parsed CSV file with its source-file tag
CsvColumns == {"customer", "booked", "rate", "pickup", "dropoff", "source_file"}

\* C26 (as claimed): the table the cache holds for a folder is never modified after it
\* is loaded: a step leaves every cached table as it was or removes it, and every
\* cached table has the columns that were fetched.  The code violates it:
\* load_quotes_data assigns the week and year columns to the table object it got from
\* load_csvs_from_folder, which is the object in the cache.
C26_CachedTableImmutable ==
    [][\A f \in FolderIds :
          /\ (csv_cache[f].cached /\ csv_cache'[f].cached) => csv_cache'[f].table = csv_cache[f].table
          /\ csv_cache'[f].cached =>
                \A i \in 1..Len(csv_cache'[f].table.rows) : DOMAIN csv_cache'[f].table.rows[i] = CsvColumns
      ]_vars

\* C27 (as claimed): with clear_csv_cache interleaved with a load in flight, the load
\* completes with the complete table of its folder, and the load does not put data
\* fetched before the clear into the cache, so that a load starting after the clear
\* fetches again.  The code violates the second part: nothing orders the store of
\* the in-flight load after the clear, and the store goes into the new dict.
C27_ClearDuringLoadIsSafe ==
    (op.name = "load_csvs_from_folder" /\ op.pc = "done") =>
        /\ ret.calls # <<>> => ret.table = FreshTable(op.folder)
        /\ op.cleared => ~csv_cache[op.folder].cached

\* C28 (as claimed): a load that fetches downloads every file of the CSV-typed
\* listing of the folder, its table has as many rows as those files together, and
\* every row carries the name of a listed file.  The code violates it: a listed file
\* whose name does not end with '.csv' is neither downloaded nor parsed.
C28_EveryListedFileLoaded ==
    (Returned("load_csvs_from_folder") /\ ret.calls # <<>>) =>
        LET listed == list_files_in_folder(op.folder)
        IN  /\ Len(ret.calls) = 1 + Len(listed)
            /\ Len(ret.table.rows) = SumInts([i \in 1..Len(listed) |-> Len(listed[i].rows)])
            /\ \A k \in 1..Len(ret.table.rows) :
                  \E i \in 1..Len(listed) : ret.table.rows[k].source_file = listed[i].name

\* a text of exactly 5 digits
IsZip5(s) == Len(s) = 5 /\ \A i \in 1..5 : s[i] \in Digit

\* s without its leading zeros
RECURSIVE WithoutLeadingZeros(_)
WithoutLeadingZeros(s) == IF s # <<>> /\ s[1] = "0" THEN WithoutLeadingZeros(Tail(s)) ELSE s

\* the suffixes a ZIP is written with: ZIP+4 and the decimal form of a number
ZipSuffixes == {<<"-">>, <<".">>, <<"-", "1">>, <<".", "0">>, <<"-", "0", "0", "0", "1">>}

\* C29 (as claimed): for a 5-digit ZIP z, get_airport_code gives the same result for
\* z, for z followed by a '-' or '.' suffix and for z with its leading zeros removed,
\* and normalizing a value twice gives the same text as normalizing it once.
C29_VariantsAgreeAndIdempotent ==
    (op.name = "get_airport_code" /\ op.arg # NaN) =>
        /\ IsZip5(op.arg) =>
              /\ \A suffix \in ZipSuffixes : get_airport_code(op.arg \o suffix, ZipMapping) = ret.value
              /\ get_airport_code(WithoutLeadingZeros(op.arg), ZipMapping) = ret.value
        /\ NormalizeZip(NormalizeZip(op.arg)) = NormalizeZip(op.arg)

\* C29 (amended): for a 5-digit ZIP z, get_airport_code gives the same result for z
\* and for z followed by a '-' or '.' suffix; it gives the same result for z with its
\* leading zeros removed when z has a non-zero digit (00000 without its zeros is
\* blank and gives UNKNOWN); a call with a suffixed 5-digit ZIP returns what the call
\* with the ZIP alone returns; and normalizing twice gives the same text as
\* normalizing once unless the trimmed text before the first '-' or '.' is longer
\* than 5 characters with a blank as its 5th.
C29_VariantsAgreeOnNonZeroZip ==
    (op.name = "get_airport_code" /\ op.arg # NaN) =>
        LET core == Strip(BeforeFirst(BeforeFirst(op.arg, "-"), "."))
        IN  /\ IsZip5(op.arg) =>
                  /\ \A suffix \in ZipSuffixes : get_airport_code(op.arg \o suffix, ZipMapping) = ret.value
                  /\ (WithoutLeadingZeros(op.arg) # <<>>) =>
                        get_airport_code(WithoutLeadingZeros(op.arg), ZipMapping) = ret.value
                  /\ (WithoutLeadingZeros(op.arg) = <<>>) =>
                        /\ ret.value = op.arg
                        /\ get_airport_code(WithoutLeadingZeros(op.arg), ZipMapping) = Unknown
            /\ (Len(op.arg) > 5 /\ IsZip5(SubSeq(op.arg, 1, 5)) /\ op.arg[6] \in {"-", "."}) =>
                  ret.value = get_airport_code(SubSeq(op.arg, 1, 5), ZipMapping)
            /\ (Len(core) <= 5 \/ core[5] # " ") <=>
                  NormalizeZip(NormalizeZip(op.arg)) = NormalizeZip(op.arg)

\* C29 witness: a mapped ZIP with leading digit 1 and a two-character suffix resolves
\* to the airport of the ZIP
C29_SuffixedMappedZip ==
    /\ op.name = "get_airport_code"
    /\ op.arg # NaN
    /\ Len(op.arg) = 7
    /\ IsZip5(SubSeq(op.arg, 1, 5))
    /\ op.arg[6] \in {"-", "."}
    /\ SubSeq(op.arg, 1, 5) \in DOMAIN ZipMapping
    /\ ret.value = ZipMapping[SubSeq(op.arg, 1, 5)]

\* C30: in a customer report every row, the TOTAL row included, has in every period
\* 0 <= Booked <= Total Quotes, 0 <= Rated <= Total Quotes and 0 <= % Rated <= 100
\* (% Rated is held in hundredths of a percent).
C30_CountsWithinTotal ==
    Returned("generate_report") =>
        \A k \in 1..Len(ret.rows) : \A l \in DOMAIN ret.rows[k].cells :
            LET cell == ret.rows[k].cells[l]
            IN  /\ 0 <= cell["Booked"] /\ cell["Booked"] <= cell["Total Quotes"]
                /\ 0 <= cell["Rated"] /\ cell["Rated"] <= cell["Total Quotes"]
                /\ 0 <= cell["% Rated"] /\ cell["% Rated"] <= 10000

\* C30 witness: a report with two customers where, in one period, a customer has
\* fewer booked quotes than quotes and the TOTAL row is partly rated
C30_PartlyBookedPartlyRated ==
    /\ Returned("generate_report")
    /\ Len(ret.rows) >= 3
    /\ \E l \in DOMAIN ret.rows[1].cells :
          /\ \E k \in 2..Len(ret.rows) :
                /\ 0 < ret.rows[k].cells[l]["Booked"]
                /\ ret.rows[k].cells[l]["Booked"] < ret.rows[k].cells[l]["Total Quotes"]
          /\ 0 < ret.rows[1].cells[l]["Rated"]
          /\ ret.rows[1].cells[l]["Rated"] < ret.rows[1].cells[l]["Total Quotes"]
          /\ 0 < ret.rows[1].cells[l]["% Rated"]
          /\ ret.rows[1].cells[l]["% Rated"] < 10000

====
